---- MODULE Spec2Model ----
(***************************************************************************)
(* Model of app.py, the Streamlit script of the AI Misinformation Toolkit. *)
(*                                                                         *)
(* Streamlit executes the script top to bottom once at session start and   *)
(* once more for every interaction with a widget.  The endpoint invoked by *)
(* genai.generate_text is external: while a script run is blocked in it    *)
(* the session is in the state "rpc", and the endpoint's outcome (an       *)
(* arbitrary response object or an exception) is an input of the model.    *)
(*                                                                         *)
(* Representation of Python values.  A value is a record [tag, s]: tag is  *)
(* "str" for a str, "none" for None and "absent" for an attribute or a     *)
(* configuration entry that does not exist.  The characters of a str are a *)
(* sequence s of pieces whose concatenation is the str: a character of the *)
(* user's input is one piece, a literal of the source is one piece (or a   *)
(* few, cut at its newlines).  A character that cannot be written in a     *)
(* string of this module (a control character other than \t \n \r \f, or  *)
(* one outside ASCII) is the piece "U+XXXX" naming its code point.         *)
(***************************************************************************)
EXTENDS Integers, Sequences, FiniteSets, TLC

\* ------------------------------------------------------------------ bounds
\* Longest text typed into the text area.
MaxLen == 2
\* Longest candidate list of a response.
MaxCands == 2

\* ------------------------------------------------------------------- state
VARIABLES
    secrets,          \* st.secrets' entry GEMINI_API_KEY
    environ,          \* os.environ's entry GEMINI_API_KEY
    GENAI_AVAILABLE,  \* the SDK could be imported
    api_key,
    USE_MOCK,
    input_text,       \* the text area's content
    analyze_btn,      \* Analyze was pressed to start the latest run
    pc,               \* "boot", "idle" (no run in progress), "rpc" (a run is
                      \* blocked in genai.generate_text)
    call,             \* the call in flight, 0 for none
    request,          \* the arguments of the call in flight
    outs,             \* red_flags, summary, insights of the latest run
    screen,           \* what the latest run has rendered
    log,              \* the endpoint calls of the latest run and how each
                      \* try block ended
    built             \* per kind, the latest prompt built for the present
                      \* content of the text area (<<>> for none yet)

vars ==
    <<secrets, environ, GENAI_AVAILABLE, api_key, USE_MOCK, input_text,
      analyze_btn, pc, call, request, outs, screen, log, built>>

\* ------------------------------------------------------------ Python values
PyStr(pieces) == [tag |-> "str", s |-> pieces]
PyNone == [tag |-> "none", s |-> <<>>]
Absent == [tag |-> "absent", s |-> <<>>]

IsStr(v) == v.tag = "str"

\* Python truthiness of a str, of None, or of a missing entry (.get gives None).
Truthy(v) == v.tag = "str" /\ Len(v.s) > 0

\* Sequences over S of length at most n.
SeqsUpTo(S, n) == UNION {[1..k -> S] : k \in 0..n}

\* The characters a user can type: a space, a no-break space (U+00A0, which
\* str.strip() removes too) and one character that is not whitespace.
Chars == {" ", "U+00A0", "a"}
\* str.strip() with no argument removes the characters c with c.isspace().
Whitespace ==
    {"\t", "\n", "U+000B", "\f", "\r", "U+001C", "U+001D", "U+001E",
     "U+001F", " ", "U+0085", "U+00A0", "U+1680", "U+2000", "U+2001",
     "U+2002", "U+2003", "U+2004", "U+2005", "U+2006", "U+2007", "U+2008",
     "U+2009", "U+200A", "U+2028", "U+2029", "U+202F", "U+205F", "U+3000"}

Texts == SeqsUpTo(Chars, MaxLen)

RECURSIVE lstrip(_)
lstrip(s) == IF s # <<>> /\ Head(s) \in Whitespace THEN lstrip(Tail(s)) ELSE s

RECURSIVE rstrip(_)
rstrip(s) ==
    IF s # <<>> /\ s[Len(s)] \in Whitespace
    THEN rstrip(SubSeq(s, 1, Len(s) - 1)) ELSE s

strip(s) == rstrip(lstrip(s))

\* str.replace(old, new) for a one-piece old.
RECURSIVE replace(_, _, _)
replace(s, old, new) ==
    IF s = <<>> THEN <<>>
    ELSE (IF Head(s) = old THEN new ELSE <<Head(s)>>) \o replace(Tail(s), old, new)

\* x is a contiguous part of s.
IsSubstring(x, s) ==
    \E i \in 0..(Len(s) - Len(x)) : SubSeq(s, i + 1, i + Len(x)) = x

StartsWith(s, p) == Len(s) >= Len(p) /\ SubSeq(s, 1, Len(p)) = p

\* ------------------------------------------------- credential and mode
\* What the secret store and the environment can hold under GEMINI_API_KEY.
SecretValues == {Absent, PyStr(<<>>), PyStr(<<"s">>)}
EnvValues == {Absent, PyStr(<<>>), PyStr(<<"e">>)}

\* Mutant: the environment variable is read first.
mut_resolve_api_key_env_first(sec, env) ==
    IF env.tag # "absent" THEN env
    ELSE IF sec.tag # "absent" THEN sec ELSE PyNone

\* api_key: the secret store's entry when the store has the key, else
\* os.environ.get, which gives None for a missing variable.
resolve_api_key(sec, env) ==
    IF sec.tag # "absent" THEN sec
    ELSE IF env.tag # "absent" THEN env ELSE PyNone

\* Mutant: a run that follows a failed call falls back to mock mode.
mut_compute_USE_MOCK_downgrade(key, genai_available) ==
    \/ ~Truthy(key)
    \/ ~genai_available
    \/ \E i \in 1..Len(log) : log[i].ev = "raised"

\* USE_MOCK: not api_key or not GENAI_AVAILABLE.
compute_USE_MOCK(key, genai_available) == ~Truthy(key) \/ ~genai_available

\* ------------------------------------------------------- prompt builder
Kinds == 1..3
RED_FLAGS == 1
SUMMARY == 2
INSIGHTS == 3

RED_FLAGS_HEAD ==
    <<"You are an assistant that identifies indicators of misinformation in text. Given the following text, return a bulleted list of 'red flags'. For each flag include: 1) Quote or short excerpt, 2) the type of problem (e.g., emotional appeal, no source, sensational claim, cherry-picking, misleading statistic, poor sourcing), 3) a one-line explanation. Use short bullet points.",
      "\n", "\n", "TEXT:", "\n", "'''">>
RED_FLAGS_TAIL == <<"'''", "\n", "\n", "Format strictly as bullets.">>

SUMMARY_HEAD ==
    <<"You are a neutral summarizer. Read the text and provide a concise, factual, neutral summary (2-4 sentences). Do not add opinions and avoid speculative language. If the input contains claims that are verifiable, indicate them as 'Claim: ...' and mark 'Verified/Unverified/Unknown' if possible.",
      "\n", "\n", "TEXT:", "\n", "'''">>
SUMMARY_TAIL == <<"'''">>

INSIGHTS_HEAD ==
    <<"You are an educational assistant. For the provided text, list 2-4 misinformation tactics used (e.g., cherry-picking, appeal to emotion, false cause), and for each tactic give a two-sentence plain-language explanation and an example suggestion for how a user can check or verify such a tactic.",
      "\n", "\n", "TEXT:", "\n", "'''">>
INSIGHTS_TAIL == <<"'''">>

\* Mutant: the text is stripped before it is interpolated.
mut_red_flags_prompt_stripped(text) ==
    RED_FLAGS_HEAD \o strip(text) \o RED_FLAGS_TAIL

red_flags_prompt(text) == RED_FLAGS_HEAD \o text \o RED_FLAGS_TAIL
summary_prompt(text) == SUMMARY_HEAD \o text \o SUMMARY_TAIL
insights_prompt(text) == INSIGHTS_HEAD \o text \o INSIGHTS_TAIL

\* The prompt of the k-th generate_* function.
build_prompt(k, text) ==
    CASE k = RED_FLAGS -> red_flags_prompt(text)
      [] k = SUMMARY -> summary_prompt(text)
      [] k = INSIGHTS -> insights_prompt(text)

\* The max_tokens argument of the k-th generate_* function.
max_tokens(k) ==
    CASE k = RED_FLAGS -> 280
      [] k = SUMMARY -> 200
      [] k = INSIGHTS -> 300

\* The arguments of genai.generate_text.
generate_text_request(k, text) ==
    [model |-> "gemini-pro", prompt |-> build_prompt(k, text),
     max_output_tokens |-> max_tokens(k)]

NoRequest == [model |-> "", prompt |-> <<>>, max_output_tokens |-> 0]

\* ---------------------------------------------------------- the endpoint
\* A candidate is its content attribute: a str, or Absent for an object
\* without that attribute (the SDK's candidates are plain dicts).
Candidates == {Absent, PyStr(<<"c">>)}
CandidateLists == SeqsUpTo(Candidates, MaxCands)

\* The direct text attribute: missing, None, empty, or a text.
TextFields == {Absent, PyNone, PyStr(<<>>), PyStr(<<"t">>)}

\* What str(resp) gives.
RESPONSE_REPR == <<"<response>">>

\* An outcome of one genai.generate_text call: a response object with any
\* subset of the attributes text and candidates, or an exception with message
\* msg.
Responses ==
    [kind : {"return"}, msg : {<<>>}, text : TextFields,
     has_candidates : BOOLEAN, candidates : CandidateLists]
WellFormed(o) == o.has_candidates \/ o.candidates = <<>>
Exceptions ==
    [kind : {"raise"}, msg : {<<"quota exceeded">>}, text : {Absent},
     has_candidates : {FALSE}, candidates : {<<>>}]
Outcomes == {o \in Responses : WellFormed(o)} \cup Exceptions

\* --------------------------------------------------------- model gateway
\* A Python call either returns val or raises an exception with message msg.
Returned(v) == [raised |-> FALSE, val |-> v, msg |-> <<>>]
Raised(m) == [raised |-> TRUE, val |-> Absent, msg |-> m]

MOCK_RESPONSE ==
    <<"[MOCK RESPONSE ", "U+2014", " no API key detected]", "\n", "\n",
      "This is a placeholder. Add your Gemini API key in .streamlit/secrets.toml or as env var GEMINI_API_KEY to get live results.">>

ERROR_PREFIX == <<"[ERROR calling Gemini API]">>

ATTRIBUTE_ERROR == <<"'dict' object has no attribute 'content'">>

\* if USE_MOCK: the mock branch; otherwise the endpoint is called.
calls_endpoint(use_mock) == ~use_mock

\* Mutant: the mock reply echoes the prompt.
mut_mock_reply_echo(prompt) ==
    [raised |-> FALSE, val |-> PyStr(MOCK_RESPONSE \o prompt), msg |-> <<>>]

\* The mock branch of call_gemini.
mock_reply(prompt) == Returned(PyStr(MOCK_RESPONSE))

\* The three returns inside the try block, after generate_text returned o.
extract_text(o) ==
    IF o.text.tag # "absent" THEN Returned(o.text)
    ELSE IF o.has_candidates /\ o.candidates # <<>>
         THEN IF o.candidates[1].tag = "absent"
              THEN Raised(ATTRIBUTE_ERROR)
              ELSE Returned(o.candidates[1])
         ELSE Returned(PyStr(RESPONSE_REPR))

\* The try block: generate_text raises, or its response is unpacked.
try_block(o) == IF o.kind = "raise" THEN Raised(o.msg) ELSE extract_text(o)

\* Mutant: the error string leaves the message out.
mut_except_handler_no_message(msg) == Returned(PyStr(ERROR_PREFIX))

\* except Exception as e: return f"[ERROR calling Gemini API] {e}".
except_handler(msg) == Returned(PyStr(ERROR_PREFIX \o <<" ">> \o msg))

\* Mutant: no try/except around the call.
mut_call_gemini_live_no_try(o) == try_block(o)

\* The live branch of call_gemini, given the endpoint's outcome.
call_gemini_live(o) ==
    LET r == try_block(o) IN IF r.raised THEN except_handler(r.msg) ELSE r

\* ------------------------------------------------------------- rendering
Element(w, sec, body) == [w |-> w, sec |-> sec, body |-> body]

SECTION_TITLE ==
    <<<<"U+1F6A9", " Red Flag Analysis">>,
      <<"U+1F4CC", " Factual Summary">>,
      <<"U+1F393", " Educational Insights">>>>

WARNING == Element("warning", 0, PyStr(<<"Please paste text to analyze.">>))
TIP ==
    Element("info", 0,
            PyStr(<<"Tip: For production, wire model outputs to citation checks (news sources, fact-checkers) and show evidence links.">>))
\* What Streamlit shows for an exception that escapes the script.
UNCAUGHT(msg) == Element("exception", 0, PyStr(msg))

NONE_HAS_NO_REPLACE == <<"'NoneType' object has no attribute 'replace'">>

subheader(k) == Element("subheader", k, PyStr(SECTION_TITLE[k]))

\* st.markdown(red_flags.replace("\n", "\n\n")): the method exists on a str
\* only.
render_red_flags(v) ==
    IF IsStr(v)
    THEN Returned(Element("markdown", RED_FLAGS,
                          PyStr(replace(v.s, "\n", <<"\n", "\n">>))))
    ELSE Raised(NONE_HAS_NO_REPLACE)

\* st.write(x) shows any object.
st_write(k, v) == Element("write", k, v)

\* The statements after the spinner block, given the three results: what
\* the run has put on the screen when it ends.
render(res) ==
    LET rf == render_red_flags(res[RED_FLAGS]) IN
    IF rf.raised
    THEN <<subheader(RED_FLAGS), UNCAUGHT(rf.msg)>>
    ELSE <<subheader(RED_FLAGS), rf.val,
           subheader(SUMMARY), st_write(SUMMARY, res[SUMMARY]),
           subheader(INSIGHTS), st_write(INSIGHTS, res[INSIGHTS]), TIP>>

\* The body of section k is on the screen.
SectionRendered(scr, k) ==
    \E i \in 1..Len(scr) : scr[i].sec = k /\ scr[i].w \in {"markdown", "write"}

\* Mutant: the input is tested without strip().
mut_is_blank_no_strip(text) == text = <<>>

\* if not input_text.strip()
is_blank(text) == strip(text) = <<>>

\* Mutant: a call that gave an error string is made again.
mut_next_call_retry(k, r) ==
    IF IsStr(r.val) /\ StartsWith(r.val.s, ERROR_PREFIX) THEN k
    ELSE IF k < 3 THEN k + 1 ELSE 0

\* What follows the k-th generate_* call, whose result r the code does not
\* look at: the next call, or 0 for the rendering.
next_call(k, r) == IF k < INSIGHTS THEN k + 1 ELSE 0

\* ------------------------------------------------------------ the session
config == <<secrets, environ, GENAI_AVAILABLE>>

NoOuts == [k \in Kinds |-> Absent]
NoBuild == [k \in Kinds |-> <<>>]

CallEvent(k) == [ev |-> "call", k |-> k, msg |-> <<>>, val |-> Absent]
\* How the try block of call k ended.
EndEvent(k, r) ==
    [ev |-> IF r.raised THEN "raised" ELSE "returned", k |-> k,
     msg |-> r.msg, val |-> r.val]

Init ==
    /\ secrets \in SecretValues
    /\ environ \in EnvValues
    /\ GENAI_AVAILABLE \in BOOLEAN
    /\ api_key = PyNone
    /\ USE_MOCK = FALSE
    /\ input_text = <<>>
    /\ analyze_btn = FALSE
    /\ pc = "boot"
    /\ call = 0
    /\ request = NoRequest
    /\ outs = NoOuts
    /\ screen = <<>>
    /\ log = <<>>
    /\ built = NoBuild

\* The top of the script, executed by every run.
ScriptTop ==
    /\ api_key' = resolve_api_key(secrets, environ)
    /\ USE_MOCK' = compute_USE_MOCK(api_key', GENAI_AVAILABLE)
    /\ UNCHANGED config

\* A run in which no button is pressed renders the form only.
PlainRun ==
    /\ ScriptTop
    /\ analyze_btn' = FALSE
    /\ pc' = "idle"
    /\ call' = 0
    /\ request' = NoRequest
    /\ outs' = NoOuts
    /\ screen' = <<>>
    /\ log' = <<>>

\* The first run of the session.
Startup ==
    /\ pc = "boot"
    /\ PlainRun
    /\ UNCHANGED <<input_text, built>>

\* The user changes the text area.
EditText(t) ==
    /\ pc = "idle"
    /\ t # input_text
    /\ input_text' = t
    /\ built' = NoBuild
    /\ PlainRun

\* Clear: st.experimental_rerun() starts the script again, no button pressed.
Clear ==
    /\ pc = "idle"
    /\ PlainRun
    /\ UNCHANGED <<input_text, built>>

\* Analyze on blank input: the warning.
AnalyzeBlank ==
    /\ pc = "idle"
    /\ is_blank(input_text)
    /\ ScriptTop
    /\ analyze_btn' = TRUE
    /\ screen' = <<WARNING>>
    /\ outs' = NoOuts
    /\ log' = <<>>
    /\ UNCHANGED <<input_text, pc, call, request, built>>

\* Analyze in mock mode: the whole run, no call leaves the process.
AnalyzeMock ==
    /\ pc = "idle"
    /\ ~is_blank(input_text)
    /\ ScriptTop
    /\ analyze_btn' = TRUE
    /\ ~calls_endpoint(USE_MOCK')
    /\ LET p == [k \in Kinds |-> build_prompt(k, input_text)]
           res == [k \in Kinds |-> mock_reply(p[k]).val]
       IN /\ outs' = res
          /\ screen' = render(res)
          /\ built' = p
    /\ log' = <<>>
    /\ UNCHANGED <<input_text, pc, call, request>>

\* Analyze in live mode: the run up to the first generate_text call.
AnalyzeLive ==
    /\ pc = "idle"
    /\ ~is_blank(input_text)
    /\ ScriptTop
    /\ analyze_btn' = TRUE
    /\ calls_endpoint(USE_MOCK')
    /\ pc' = "rpc"
    /\ call' = RED_FLAGS
    /\ request' = generate_text_request(RED_FLAGS, input_text)
    /\ built' = [built EXCEPT ![RED_FLAGS] = request'.prompt]
    /\ outs' = NoOuts
    /\ screen' = <<>>
    /\ log' = <<CallEvent(RED_FLAGS)>>
    /\ UNCHANGED input_text

\* generate_text ends with outcome o: the rest of call_gemini, and the run
\* up to the next generate_text call or to its end.
EndpointOutcome(o) ==
    /\ pc = "rpc"
    /\ LET r == call_gemini_live(o)
           ended == Append(log, EndEvent(call, try_block(o)))
           nxt == next_call(call, r)
           res == [outs EXCEPT ![call] = r.val]
       IN IF r.raised
          THEN \* the exception leaves call_gemini and ends the run
               /\ pc' = "idle"
               /\ call' = 0
               /\ request' = NoRequest
               /\ screen' = <<UNCAUGHT(r.msg)>>
               /\ log' = ended
               /\ UNCHANGED <<outs, built>>
          ELSE IF nxt # 0
          THEN /\ pc' = "rpc"
               /\ call' = nxt
               /\ request' = generate_text_request(nxt, input_text)
               /\ built' = [built EXCEPT ![nxt] = request'.prompt]
               /\ outs' = res
               /\ log' = Append(ended, CallEvent(nxt))
               /\ UNCHANGED screen
          ELSE /\ pc' = "idle"
               /\ call' = 0
               /\ request' = NoRequest
               /\ outs' = res
               /\ screen' = render(res)
               /\ log' = ended
               /\ UNCHANGED built
    /\ UNCHANGED <<config, api_key, USE_MOCK, input_text, analyze_btn>>

Next ==
    \/ Startup
    \/ \E t \in Texts : EditText(t)
    \/ Clear
    \/ AnalyzeBlank
    \/ AnalyzeMock
    \/ AnalyzeLive
    \/ \E o \in Outcomes : EndpointOutcome(o)

Spec == Init /\ [][Next]_vars

\* ---------------------------------------------------------------- claims
\* A run started by Analyze on non-blank input has ended.
AnalysisEnded == pc = "idle" /\ analyze_btn /\ ~is_blank(input_text)

RaisedEvents == {i \in 1..Len(log) : log[i].ev = "raised"}

\* C1: in live mode, an exception raised by the generation call or while the
\* text is taken out of the response does not leave call_gemini: the output
\* of that call is a str that starts with [ERROR calling Gemini API] and
\* contains the exception's message.
C1_ErrorBecomesString ==
    \A i \in RaisedEvents :
        LET v == outs[log[i].k]
        IN /\ IsStr(v)
           /\ StartsWith(v.s, ERROR_PREFIX)
           /\ IsSubstring(log[i].msg, v.s)
           /\ \A j \in 1..Len(screen) : screen[j] # UNCAUGHT(log[i].msg)

\* Both kinds of failure have happened in one analysis: the endpoint raised,
\* and a candidate without content made the extraction raise.
C1_Witness ==
    /\ ~USE_MOCK
    /\ \E i \in RaisedEvents : log[i].msg = ATTRIBUTE_ERROR
    /\ \E i \in RaisedEvents : log[i].msg = <<"quota exceeded">>

\* C2: when one of the three calls of a live analysis fails, all three calls
\* have still been made when the run ends, and the output of every call that
\* did not fail is the value that call itself returned.
C2_FailureDoesNotBlock ==
    (AnalysisEnded /\ RaisedEvents # {}) =>
        /\ \A k \in Kinds : \E i \in 1..Len(log) : log[i] = CallEvent(k)
        /\ \A i \in 1..Len(log) :
               log[i].ev = "returned" => outs[log[i].k] = log[i].val

\* The summary call failed, the other two gave their texts.
C2_Witness ==
    /\ AnalysisEnded
    /\ Len(log) = 6
    /\ RaisedEvents = {4}
    /\ outs[RED_FLAGS] = PyStr(<<"t">>)
    /\ outs[INSIGHTS] = PyStr(<<"c">>)

\* C3: in mock mode an analysis of any non-blank text gives the fixed mock
\* string three times, and no call to the endpoint is made or in flight.
C3_MockMode ==
    (USE_MOCK /\ pc # "boot") =>
        /\ pc = "idle"
        /\ log = <<>>
        /\ request = NoRequest
        /\ (analyze_btn /\ ~is_blank(input_text)) =>
               \A k \in Kinds : outs[k] = PyStr(MOCK_RESPONSE)

C3_Witness ==
    /\ USE_MOCK
    /\ AnalysisEnded
    /\ input_text = <<" ", "a">>
    /\ outs[INSIGHTS] = PyStr(MOCK_RESPONSE)
    /\ SectionRendered(screen, INSIGHTS)

\* C4: Analyze on empty or whitespace-only input builds no prompt, makes no
\* call and renders no section: the warning is all the run shows, in mock
\* and in live mode.
C4_BlankInput ==
    (pc # "boot" /\ analyze_btn /\ strip(input_text) = <<>>) =>
        /\ screen = <<WARNING>>
        /\ pc = "idle"
        /\ log = <<>>
        /\ request = NoRequest
        /\ outs = NoOuts
        /\ built = NoBuild

\* Whitespace-only input in live mode, a space and a no-break space.
C4_Witness ==
    /\ ~USE_MOCK
    /\ analyze_btn
    /\ input_text = <<" ", "U+00A0">>
    /\ screen = <<WARNING>>

\* C5: every analysis of non-blank input ends with the three sections
\* rendered, whatever the endpoint returned or raised.
C5_AllSectionsRendered ==
    AnalysisEnded => \A k \in Kinds : SectionRendered(screen, k)

\* C6 as stated: the mode follows from the credential alone; mock exactly
\* when neither the secret store nor the environment supplies one.
C6_ModeFromCredentialAlone ==
    pc # "boot" => (USE_MOCK <=> ~(Truthy(secrets) \/ Truthy(environ)))

\* C6 amended: the secret store's entry, when there is one, is the
\* credential, else the environment's; mock mode when neither has an entry;
\* live mode exactly when the SDK was imported and that credential is not
\* empty.
C6_Amended ==
    pc # "boot" =>
        /\ secrets.tag # "absent" => api_key = secrets
        /\ (secrets.tag = "absent" /\ environ.tag # "absent") =>
               api_key = environ
        /\ (secrets.tag = "absent" /\ environ.tag = "absent") =>
               (api_key = PyNone /\ USE_MOCK)
        /\ ~USE_MOCK <=>
               /\ GENAI_AVAILABLE
               /\ \/ Truthy(secrets)
                  \/ secrets.tag = "absent" /\ Truthy(environ)

\* Both sources hold a credential: the secret store's is used, live mode.
C6_Witness ==
    /\ pc # "boot"
    /\ secrets = PyStr(<<"s">>)
    /\ environ = PyStr(<<"e">>)
    /\ api_key = PyStr(<<"s">>)
    /\ ~USE_MOCK

\* The text C7 asks for: the direct text field when it holds a str, else the
\* first candidate's content, else the string conversion of the response.
FirstAvailableText(o) ==
    IF IsStr(o.text) THEN o.text
    ELSE IF o.has_candidates /\ o.candidates # <<>> THEN o.candidates[1]
    ELSE PyStr(RESPONSE_REPR)

\* The response can be unpacked without an exception.
Unpackable(o) ==
    ~(/\ o.text.tag = "absent"
      /\ o.has_candidates
      /\ o.candidates # <<>>
      /\ o.candidates[1].tag = "absent")

\* C7: when the generation call returns, the output of call_gemini is the
\* first available text of the response.
C7_FirstAvailableText ==
    [][\A o \in Outcomes :
           (o.kind = "return" /\ Unpackable(o) /\ EndpointOutcome(o)) =>
               outs'[call] = FirstAvailableText(o)]_vars

\* The fixed parts of the three templates.
TemplateHead == <<RED_FLAGS_HEAD, SUMMARY_HEAD, INSIGHTS_HEAD>>
TemplateTail == <<RED_FLAGS_TAIL, SUMMARY_TAIL, INSIGHTS_TAIL>>

\* C8: every prompt built is its fixed template around the text exactly as
\* typed, so it contains the text, and a prompt built again for the same text
\* is the one built before, whatever happened in between.
C8_PromptVerbatimAndRepeatable ==
    /\ [](\A k \in Kinds :
              built[k] # <<>> =>
                  /\ IsSubstring(input_text, built[k])
                  /\ built[k] = TemplateHead[k] \o input_text \o TemplateTail[k])
    /\ [][\A k \in Kinds :
              (built[k] # <<>> /\ built'[k] # <<>>) => built'[k] = built[k]]_vars

\* A second live analysis of a text with leading whitespace has begun: the
\* first prompt is built again while the earlier analysis' three are known.
C8_Witness ==
    /\ pc = "rpc"
    /\ call = RED_FLAGS
    /\ input_text = <<" ", "a">>
    /\ \A k \in Kinds : built[k] # <<>>

\* C9: a live analysis calls the endpoint three times, red flags, summary,
\* insights, each call after the one before has ended, none of them twice,
\* and renders nothing before the third has ended.
C9_ThreeCallsInOrder ==
    /\ Len(log) <= 6
    /\ \A i \in 1..Len(log) :
           IF i % 2 = 1
           THEN log[i] = CallEvent((i + 1) \div 2)
           ELSE log[i].ev \in {"returned", "raised"} /\ log[i].k = i \div 2
    /\ pc = "rpc" =>
           /\ Len(log) % 2 = 1
           /\ call = (Len(log) + 1) \div 2
           /\ request = generate_text_request(call, input_text)
           /\ screen = <<>>
    /\ (AnalysisEnded /\ ~USE_MOCK) => Len(log) = 6

\* A live analysis whose first call failed has ended and rendered.
C9_Witness ==
    /\ AnalysisEnded
    /\ ~USE_MOCK
    /\ Len(log) = 6
    /\ log[2].ev = "raised"
    /\ \A k \in Kinds : SectionRendered(screen, k)

\* C10: once the first run has set USE_MOCK, no step changes it.
C10_ModeFixed == [][pc # "boot" => USE_MOCK' = USE_MOCK]_vars

\* The third call of an analysis is in flight in live mode after the first
\* one failed.
C10_Witness ==
    /\ ~USE_MOCK
    /\ pc = "rpc"
    /\ call = INSIGHTS
    /\ log[2].ev = "raised"

====
